---- MODULE Spec2Model ----
(***************************************************************************)
(* Model of js/main.js: the blog theme's client-side script.               *)
(*                                                                         *)
(* The script is two immediately-invoked functions that register DOM       *)
(* event handlers (a third one only selects elements):                     *)
(*   - clickMenu: at width <= 770, a click handler on #headerMenu that     *)
(*     toggles `active` / `nav-show`, and a click listener on body that    *)
(*     removes both;                                                       *)
(*   - back to top: a scroll listener on window that adds or removes       *)
(*     `back-to-top-show`.                                                 *)
(*                                                                         *)
(* The state is the part of the DOM the script reads and writes, the       *)
(* handlers the script has registered, and a record of the last event      *)
(* dispatched.  An element is a record [exists, classList]; a selector     *)
(* that finds nothing yields Null.                                         *)
(***************************************************************************)
EXTENDS Integers, FiniteSets, Sequences, TLC

\* main.js:11   window.innerWidth <= 770
MenuWidth == 770

\* main.js:41   scrollTop > 200
ShowThreshold == 200

\* Longest run of consecutive menu-button clicks the model explores.
MaxClicks == 4

\* Viewport widths and scroll offsets the environment may report.
Widths == {MenuWidth - 1, MenuWidth, MenuWidth + 1}

Offsets == {0, 100, ShowThreshold - 1, ShowThreshold, ShowThreshold + 1, 300}

VARIABLES
    innerWidth,      \* window.innerWidth, as it is now
    menuBtn,         \* the element #headerMenu
    nav,             \* the element #headerNav
    backToTop,       \* the element .back-to-top
    docScrollTop,    \* document.documentElement.scrollTop
    bodyScrollTop,   \* document.body.scrollTop
    onclick,         \* menuBtn.onclick is set
    bodyListener,    \* body has the click listener of line 24
    scrollListener,  \* window has the scroll listener of line 36
    loaded,          \* what the page was when the script ran
    lastEvent,       \* the event dispatched last
    handlersRun,     \* the handlers that ran for it, in order
    btnRun,          \* consecutive menu-button clicks ending now
    runStart,        \* [active, navShow] when that run started
    before,          \* the classes and the offset read before the last event
    scrolled         \* a scroll event has been dispatched since load

vars == <<innerWidth, menuBtn, nav, backToTop, docScrollTop, bodyScrollTop,
          onclick, bodyListener, scrollListener, loaded, lastEvent,
          handlersRun, btnRun, runStart, before, scrolled>>

-----------------------------------------------------------------------------
(* DOM elements and class lists *)

\* document.querySelector(...) that matches nothing returns null.
Null == [exists |-> FALSE, classList |-> {}]

Element(classes) == [exists |-> TRUE, classList |-> classes]

\* el.classList.contains(c)
Contains(el, c) == c \in el.classList

\* el.classList.add(c)
Add(el, c) == [el EXCEPT !.classList = @ \cup {c}]

\* el.classList.remove(c)
Remove(el, c) == [el EXCEPT !.classList = @ \ {c}]

\* Math.max(a, b)
Max(a, b) == IF a >= b THEN a ELSE b

-----------------------------------------------------------------------------
(* The script, run once at load *)

\* main.js:11: the width test that decides whether the menu is wired up.
MenuWiredOffByOne(w) == w <= MenuWidth + 1

MenuWired(w) == w <= MenuWidth

\* main.js:10-29.  With the width test true the function sets
\* menuBtn.onclick (a TypeError when menuBtn is null, which ends the
\* function and the script) and then adds the body click listener.
ClickMenu(w, btn) ==
    IF MenuWired(w)
    THEN IF btn.exists
         THEN [onclick |-> TRUE,  bodyListener |-> TRUE,  threw |-> FALSE]
         ELSE [onclick |-> FALSE, bodyListener |-> FALSE, threw |-> TRUE]
    ELSE [onclick |-> FALSE, bodyListener |-> FALSE, threw |-> FALSE]

\* main.js:32-48.  The second function runs only if the script is still
\* running, i.e. the first one did not throw; it registers the scroll
\* listener whether or not .back-to-top was found.
BackToTopRegistered(threw) == ~threw

-----------------------------------------------------------------------------
(* The handlers *)

\* main.js:14-23.  The result is the two elements after the handler and
\* whether propagation was stopped.  nav.classList on a null nav throws and
\* ends the handler where it stands.
MenuBtnNoStop(btn, nv) ==
    IF Contains(btn, "active")
    THEN [menuBtn |-> Remove(btn, "active"), nav |-> Remove(nv, "nav-show"),
          stopped |-> FALSE]
    ELSE [menuBtn |-> Add(btn, "active"), nav |-> Add(nv, "nav-show"),
          stopped |-> FALSE]

MenuBtnAlwaysOpen(btn, nv) ==
    [menuBtn |-> Add(btn, "active"), nav |-> Add(nv, "nav-show"),
     stopped |-> TRUE]

MenuBtnButtonOnly(btn, nv) ==
    IF Contains(btn, "active")
    THEN [menuBtn |-> Remove(btn, "active"), nav |-> nv, stopped |-> TRUE]
    ELSE [menuBtn |-> Add(btn, "active"), nav |-> nv, stopped |-> TRUE]

MenuBtnOnclick(btn, nv) ==
    IF Contains(btn, "active")
    THEN IF nv.exists
         THEN [menuBtn |-> Remove(btn, "active"),
               nav     |-> Remove(nv, "nav-show"),
               stopped |-> TRUE]
         ELSE [menuBtn |-> Remove(btn, "active"), nav |-> nv,
               stopped |-> TRUE]
    ELSE IF nv.exists
         THEN [menuBtn |-> Add(btn, "active"),
               nav     |-> Add(nv, "nav-show"),
               stopped |-> TRUE]
         ELSE [menuBtn |-> btn, nav |-> nv, stopped |-> TRUE]

\* main.js:24-27.  nav is touched first, so a null nav throws before the
\* button is touched.
BodyClickNavOnly(btn, nv) ==
    [menuBtn |-> btn, nav |-> Remove(nv, "nav-show")]

BodyClickToggle(btn, nv) ==
    [menuBtn |-> IF Contains(btn, "active") THEN Remove(btn, "active")
                 ELSE Add(btn, "active"),
     nav     |-> IF Contains(nv, "nav-show") THEN Remove(nv, "nav-show")
                 ELSE Add(nv, "nav-show")]

BodyClick(btn, nv) ==
    IF nv.exists
    THEN [menuBtn |-> Remove(btn, "active"), nav |-> Remove(nv, "nav-show")]
    ELSE [menuBtn |-> btn, nav |-> nv]

\* main.js:36-46.  d and b are the two offsets read at the event.
OnScrollInclusive(btt, d, b) ==
    IF Max(d, b) >= ShowThreshold
    THEN Add(btt, "back-to-top-show")
    ELSE Remove(btt, "back-to-top-show")

OnScrollSticky(btt, d, b) ==
    IF Max(d, b) > ShowThreshold
    THEN Add(btt, "back-to-top-show")
    ELSE IF Max(d, b) < ShowThreshold - 50
         THEN Remove(btt, "back-to-top-show")
         ELSE btt

OnScroll(btt, d, b) ==
    IF btt.exists
    THEN IF Max(d, b) > ShowThreshold
         THEN Add(btt, "back-to-top-show")
         ELSE Remove(btt, "back-to-top-show")
    ELSE btt

-----------------------------------------------------------------------------
(* Initial states: the page right after the script has run *)

MenuClasses(btn, nv) ==
    [active |-> Contains(btn, "active"), navShow |-> Contains(nv, "nav-show")]

Snapshot(btn, nv, btt, d, b) ==
    [active |-> Contains(btn, "active"), navShow |-> Contains(nv, "nav-show"),
     show |-> Contains(btt, "back-to-top-show"), scrollTop |-> Max(d, b)]

Now == Snapshot(menuBtn, nav, backToTop, docScrollTop, bodyScrollTop)

\* main.js:10-48 run on the page (w, btn, nv, btt).  The script registers
\* handlers and writes no class.
LoadedFlagSynced(w, btn, nv, btt) ==
    /\ innerWidth = w
    /\ menuBtn = btn
    /\ nav = nv
    /\ docScrollTop \in Offsets
    /\ bodyScrollTop \in Offsets
    /\ backToTop = OnScroll(btt, docScrollTop, bodyScrollTop)
    /\ onclick = ClickMenu(w, btn).onclick
    /\ bodyListener = ClickMenu(w, btn).bodyListener
    /\ scrollListener = BackToTopRegistered(ClickMenu(w, btn).threw)
    /\ loaded = [width |-> w, active |-> Contains(btn, "active"),
                 navShow |-> Contains(nv, "nav-show"),
                 show |-> Contains(btt, "back-to-top-show")]
    /\ lastEvent = "load"
    /\ handlersRun = <<>>
    /\ btnRun = 0
    /\ runStart = MenuClasses(btn, nv)
    /\ before = Now
    /\ scrolled = FALSE

Loaded(w, btn, nv, btt) ==
    /\ innerWidth = w
    /\ menuBtn = btn
    /\ nav = nv
    /\ backToTop = btt
    /\ docScrollTop \in Offsets
    /\ bodyScrollTop \in Offsets
    /\ onclick = ClickMenu(w, btn).onclick
    /\ bodyListener = ClickMenu(w, btn).bodyListener
    /\ scrollListener = BackToTopRegistered(ClickMenu(w, btn).threw)
    /\ loaded = [width |-> w, active |-> Contains(btn, "active"),
                 navShow |-> Contains(nv, "nav-show"),
                 show |-> Contains(btt, "back-to-top-show")]
    /\ lastEvent = "load"
    /\ handlersRun = <<>>
    /\ btnRun = 0
    /\ runStart = MenuClasses(btn, nv)
    /\ before = Now
    /\ scrolled = FALSE

\* The page as the theme serves it: every selector finds its element.
Init ==
    \E w \in Widths :
    \E bc \in SUBSET {"active"} :
    \E nc \in SUBSET {"nav-show"} :
    \E tc \in SUBSET {"back-to-top-show"} :
        Loaded(w, Element(bc), Element(nc), Element(tc))

\* Any page: each selector may find nothing.
InitAnyPage ==
    \E w \in Widths :
    \E btn \in {Null} \cup {Element(c) : c \in SUBSET {"active"}} :
    \E nv \in {Null} \cup {Element(c) : c \in SUBSET {"nav-show"}} :
    \E btt \in {Null} \cup {Element(c) : c \in SUBSET {"back-to-top-show"}} :
        Loaded(w, btn, nv, btt)

-----------------------------------------------------------------------------
(* Events *)

\* A click whose target is the menu button (or something inside it): the
\* button's onclick runs first; the event then bubbles to body unless
\* propagation was stopped.
ClickMenuBtn ==
    /\ menuBtn.exists
    /\ btnRun < MaxClicks
    /\ LET r1 == IF onclick
                 THEN MenuBtnOnclick(menuBtn, nav)
                 ELSE [menuBtn |-> menuBtn, nav |-> nav, stopped |-> FALSE]
           bubbles == bodyListener /\ ~r1.stopped
           r2 == IF bubbles
                 THEN BodyClick(r1.menuBtn, r1.nav)
                 ELSE [menuBtn |-> r1.menuBtn, nav |-> r1.nav]
       IN  /\ menuBtn' = r2.menuBtn
           /\ nav' = r2.nav
           /\ handlersRun' = (IF onclick THEN <<"menuBtn.onclick">> ELSE <<>>)
                             \o (IF bubbles THEN <<"body.click">> ELSE <<>>)
    /\ lastEvent' = "button"
    /\ before' = Now
    /\ btnRun' = btnRun + 1
    /\ runStart' = IF btnRun = 0 THEN MenuClasses(menuBtn, nav) ELSE runStart
    /\ UNCHANGED <<innerWidth, backToTop, docScrollTop, bodyScrollTop,
                   onclick, bodyListener, scrollListener, loaded, scrolled>>

\* A click anywhere else in the body.
ClickElsewhere ==
    /\ LET r == IF bodyListener
                THEN BodyClick(menuBtn, nav)
                ELSE [menuBtn |-> menuBtn, nav |-> nav]
       IN  /\ menuBtn' = r.menuBtn
           /\ nav' = r.nav
           /\ runStart' = MenuClasses(r.menuBtn, r.nav)
    /\ handlersRun' = IF bodyListener THEN <<"body.click">> ELSE <<>>
    /\ lastEvent' = "body"
    /\ before' = Now
    /\ btnRun' = 0
    /\ UNCHANGED <<innerWidth, backToTop, docScrollTop, bodyScrollTop,
                   onclick, bodyListener, scrollListener, loaded, scrolled>>

\* The page is scrolled to offsets d (document element) and b (body) and
\* the scroll event is dispatched.
ScrollAlsoCloses(d, b) ==
    /\ docScrollTop' = d
    /\ bodyScrollTop' = b
    /\ backToTop' = IF scrollListener THEN OnScroll(backToTop, d, b)
                    ELSE backToTop
    /\ menuBtn' = Remove(menuBtn, "active")
    /\ nav' = Remove(nav, "nav-show")
    /\ handlersRun' = IF scrollListener THEN <<"window.scroll">> ELSE <<>>
    /\ lastEvent' = "scroll"
    /\ scrolled' = TRUE
    /\ before' = Now
    /\ btnRun' = 0
    /\ runStart' = MenuClasses(menuBtn', nav')
    /\ UNCHANGED <<innerWidth, onclick, bodyListener, scrollListener, loaded>>

Scroll(d, b) ==
    /\ docScrollTop' = d
    /\ bodyScrollTop' = b
    /\ backToTop' = IF scrollListener THEN OnScroll(backToTop, d, b)
                    ELSE backToTop
    /\ handlersRun' = IF scrollListener THEN <<"window.scroll">> ELSE <<>>
    /\ lastEvent' = "scroll"
    /\ scrolled' = TRUE
    /\ before' = Now
    /\ btnRun' = 0
    /\ runStart' = MenuClasses(menuBtn, nav)
    /\ UNCHANGED <<innerWidth, menuBtn, nav, onclick, bodyListener,
                   scrollListener, loaded>>

\* The window is resized to width w.  The script has no resize listener.
ResizeRewires(w) ==
    /\ innerWidth' = w
    /\ onclick' = ClickMenu(w, menuBtn).onclick
    /\ bodyListener' = ClickMenu(w, menuBtn).bodyListener
    /\ handlersRun' = <<>>
    /\ lastEvent' = "resize"
    /\ before' = Now
    /\ btnRun' = 0
    /\ runStart' = MenuClasses(menuBtn, nav)
    /\ UNCHANGED <<menuBtn, nav, backToTop, docScrollTop, bodyScrollTop,
                   scrollListener, loaded, scrolled>>

Resize(w) ==
    /\ innerWidth' = w
    /\ handlersRun' = <<>>
    /\ lastEvent' = "resize"
    /\ before' = Now
    /\ btnRun' = 0
    /\ runStart' = MenuClasses(menuBtn, nav)
    /\ UNCHANGED <<menuBtn, nav, backToTop, docScrollTop, bodyScrollTop,
                   onclick, bodyListener, scrollListener, loaded, scrolled>>

Next ==
    \/ ClickMenuBtn
    \/ ClickElsewhere
    \/ \E d \in Offsets : \E b \in Offsets : Scroll(d, b)
    \/ \E w \in Widths : Resize(w)

Spec == Init /\ [][Next]_vars

SpecAnyPage == InitAnyPage /\ [][Next]_vars

-----------------------------------------------------------------------------
(* State functions used by the properties *)

Active == Contains(menuBtn, "active")

NavShow == Contains(nav, "nav-show")

Show == Contains(backToTop, "back-to-top-show")

\* main.js:39, on the offsets as they are now
ScrollTop == Max(docScrollTop, bodyScrollTop)

LoadedNarrow == loaded.width <= MenuWidth

RunFromClosed == ~runStart.active /\ ~runStart.navShow

-----------------------------------------------------------------------------
(* Properties *)

\* C1: loaded at width <= 770, after n consecutive menu-button clicks that
\* started with `active` and `nav-show` both absent, both classes are
\* present when n is odd and both are absent when n is even.
C1_ToggleParity ==
    (LoadedNarrow /\ RunFromClosed /\ btnRun > 0) =>
        IF btnRun % 2 = 1 THEN Active /\ NavShow ELSE ~Active /\ ~NavShow

C1_Witness ==
    /\ loaded.width = MenuWidth
    /\ ~loaded.active /\ ~loaded.navShow
    /\ RunFromClosed
    /\ btnRun = 2
    /\ ~Active /\ ~NavShow

\* C2: a click on the menu button never runs the body click listener; at
\* width <= 770 it runs the button's handler and nothing else, so a click
\* on the button of a closed menu ends with the menu open.
C2_ButtonClickStopsAtButton ==
    lastEvent = "button" =>
        /\ \A i \in 1..Len(handlersRun) : handlersRun[i] # "body.click"
        /\ LoadedNarrow => handlersRun = <<"menuBtn.onclick">>
        /\ (LoadedNarrow /\ ~before.active /\ ~before.navShow) =>
               Active /\ NavShow

C2_Witness ==
    /\ lastEvent = "button"
    /\ LoadedNarrow
    /\ bodyListener
    /\ ~before.active /\ ~before.navShow
    /\ handlersRun = <<"menuBtn.onclick">>
    /\ Active /\ NavShow

\* C3: loaded at width <= 770, after a click in the body that is not on the
\* menu button `nav-show` and `active` are both absent, whatever they were
\* before the click.
C3_BodyClickCloses ==
    (LoadedNarrow /\ lastEvent = "body") =>
        /\ handlersRun = <<"body.click">>
        /\ ~Active /\ ~NavShow

C3_Witness ==
    /\ LoadedNarrow
    /\ lastEvent = "body"
    /\ before.active /\ before.navShow
    /\ ~Active /\ ~NavShow

\* C4: loaded at width > 770, no menu handler is registered and `active`
\* and `nav-show` are as they were at load after any sequence of events.
C4_WideIsInert ==
    ~LoadedNarrow =>
        /\ ~onclick /\ ~bodyListener
        /\ lastEvent \in {"button", "body"} => handlersRun = <<>>
        /\ Active = loaded.active
        /\ NavShow = loaded.navShow

C4_Witness ==
    /\ loaded.width = MenuWidth + 1
    /\ lastEvent = "button"
    /\ btnRun = 2
    /\ ~loaded.active /\ ~Active
    /\ ~loaded.navShow /\ ~NavShow

\* C5: after a scroll event `back-to-top-show` is present exactly when the
\* larger of the two scroll offsets is strictly greater than 200.
C5_ShowIffAboveThreshold ==
    lastEvent = "scroll" => (Show <=> ScrollTop > ShowThreshold)

C5_Witness ==
    /\ lastEvent = "scroll"
    /\ ScrollTop = ShowThreshold
    /\ before.show
    /\ ~Show

\* C6: the flag has no hysteresis.  A scroll event at 300 followed by one
\* at 100 leaves the flag absent, and of two consecutive scroll events on
\* opposite sides of the threshold the second always flips the flag.
C6_NoHysteresis ==
    [][ (lastEvent = "scroll" /\ lastEvent' = "scroll") =>
          /\ (ScrollTop = 300 /\ ScrollTop' = 100) => ~Show'
          /\ ((ScrollTop > ShowThreshold) # (ScrollTop' > ShowThreshold)) =>
                 Show' # Show ]_vars

C6_Witness ==
    /\ lastEvent = "scroll"
    /\ before.scrollTop = 300
    /\ before.show
    /\ ScrollTop = 100
    /\ ~Show

\* C7: the width test is made once, at load.  After the window is resized
\* across 770 the page still behaves as its width at load decided: loaded
\* wide, clicks run no handler and change no class; loaded narrow, a button
\* click toggles both classes and a body click removes both.
C7_WidthTestedOnce ==
    /\ onclick = LoadedNarrow
    /\ bodyListener = LoadedNarrow
    /\ (~LoadedNarrow /\ innerWidth <= MenuWidth
            /\ lastEvent \in {"button", "body"}) =>
           /\ handlersRun = <<>>
           /\ Active = before.active
           /\ NavShow = before.navShow
    /\ (LoadedNarrow /\ innerWidth > MenuWidth /\ lastEvent = "button") =>
           /\ Active = ~before.active
           /\ NavShow = ~before.active
    /\ (LoadedNarrow /\ innerWidth > MenuWidth /\ lastEvent = "body") =>
           ~Active /\ ~NavShow

C7_Witness ==
    /\ LoadedNarrow
    /\ innerWidth > MenuWidth
    /\ lastEvent = "button"
    /\ ~before.active /\ ~before.navShow
    /\ Active /\ NavShow

\* C8: on a page loaded at width <= 770 that lacks #headerMenu or
\* #headerNav, the scroll listener is still registered: after a scroll
\* event `back-to-top-show` follows the offset.
C8_ScrollSurvivesMissingMenu ==
    (LoadedNarrow /\ (~menuBtn.exists \/ ~nav.exists) /\ backToTop.exists
        /\ lastEvent = "scroll") =>
        (Show <=> ScrollTop > ShowThreshold)

\* C9: if `active` and `nav-show` were both absent at load, then after any
\* sequence of events `active` is present exactly when `nav-show` is.
C9_MenuFlagsAgree ==
    (~loaded.active /\ ~loaded.navShow) => (Active <=> NavShow)

C9_Witness ==
    /\ ~loaded.active /\ ~loaded.navShow
    /\ lastEvent = "scroll"
    /\ Active /\ NavShow

\* C10: the two controllers do not interact.  A click never changes
\* `back-to-top-show`, a scroll event never changes `active` or `nav-show`,
\* and the scroll listener is registered and runs at any width at load.
C10_ControllersIndependent ==
    /\ scrollListener
    /\ lastEvent \in {"button", "body"} => Show = before.show
    /\ lastEvent = "scroll" =>
           /\ handlersRun = <<"window.scroll">>
           /\ Active = before.active
           /\ NavShow = before.navShow

C10_Witness ==
    /\ lastEvent = "scroll"
    /\ Active /\ NavShow
    /\ before.active /\ before.navShow
    /\ ~before.show /\ Show

\* The three flags, as they are now.
Flags == <<Active, NavShow, Show>>

\* C11: the close and scroll handlers are idempotent.  A body click on a
\* closed menu changes none of the three flags, a body click right after a
\* body click changes none, and a scroll event right after a scroll event
\* read at the same offset changes none.
C11_CloseAndScrollIdempotent ==
    [][ /\ (lastEvent' = "body" /\ ~Active /\ ~NavShow) => Flags' = Flags
        /\ (lastEvent = "body" /\ lastEvent' = "body") => Flags' = Flags
        /\ (lastEvent = "scroll" /\ lastEvent' = "scroll"
                /\ ScrollTop' = ScrollTop) => Flags' = Flags ]_vars

C11_Witness ==
    /\ LoadedNarrow
    /\ lastEvent = "body"
    /\ handlersRun = <<"body.click">>
    /\ ~before.active /\ ~before.navShow
    /\ ~Active /\ ~NavShow
    /\ Show = before.show

\* C12: `back-to-top-show` is written by the scroll listener only, never
\* at load.  Until the first scroll event the flag is what the page had at
\* load, whatever the offset; once a scroll event has been dispatched the
\* flag is present exactly when the larger offset is above 200.
C12_FlagWrittenOnlyOnScroll ==
    /\ ~scrolled => Show = loaded.show
    /\ scrolled => (Show <=> ScrollTop > ShowThreshold)

C12_Witness ==
    /\ ~scrolled
    /\ lastEvent = "button"
    /\ ScrollTop = 300
    /\ ~loaded.show
    /\ ~Show

====
